---- MODULE Spec2Model ----
(***************************************************************************)
(* A state-machine model of two integration adapters:                      *)
(*   - SailPointIdentityNowEventCollector.py (token cache, cursor-based    *)
(*     incremental fetch, event normalisation, the three commands of main) *)
(*   - ExabeamDataLake.py (login, page-window computation, day-index       *)
(*     enumeration, single-shot search, the commands of main)              *)
(* One instance runs one of the two programs (variable integration).  Each *)
(* invocation of main() is a short-lived run over the persisted state      *)
(* (integration context, last run) and the vendor's event index.           *)
(*                                                                         *)
(* Encoding of Python values:                                              *)
(*   - an optional value is a sequence: <<>> is None, <<v>> is the value v *)
(*   - the clock is in whole seconds; a vendor timestamp string is a       *)
(*     record of seconds and microseconds; an event id is a positive       *)
(*     integer and the search-after marker "0" is the integer 0            *)
(*   - a dict that is either empty or {'prev_id','prev_date'} is a record  *)
(*     with a boolean field set                                            *)
(***************************************************************************)
EXTENDS Integers, Sequences, FiniteSets, TLC

(* ------------------------------ bounds -------------------------------- *)
NumRecords == 3
MaxBudget == 1
MaxTicks == 1
MaxInvocations == 2
MaxArg == 2
MaxList == 2
MaxPasses == 2

(* ------------------------- program constants -------------------------- *)
LookbackSeconds == 3600
TokenSafetyMargin == 60
DefaultMaxEvents == 50000
DefaultLimit == 50
DefaultPage == 1
DefaultPageSize == 50
DefaultSize == 50
MaxSpanDays == 10

None == <<>>
Some(v) == <<v>>
IsNone(o) == Len(o) = 0
Min(a, b) == IF a <= b THEN a ELSE b

(* A vendor timestamp string ("2024-01-01T00:00:00.500Z") is a record of   *)
(* whole seconds and microseconds; the strings compare as the times do.    *)
Stamp(s, u) == [sec |-> s, micro |-> u]
StampLeq(a, b) == a.sec < b.sec \/ (a.sec = b.sec /\ a.micro <= b.micro)
StampLess(a, b) == a.sec < b.sec \/ (a.sec = b.sec /\ a.micro < b.micro)
HalfSecondMicros == 1000000 \div 2

(* The clock moves on a half-hour grid starting one lookback after 0.     *)
TickSeconds == LookbackSeconds \div 2
NowStart == LookbackSeconds
MaxNow == NowStart + MaxTicks * TickSeconds
CreatedTimes == {Stamp(0, 0), Stamp(TickSeconds, HalfSecondMicros)}
TokenReplies == {"", "tokA", "tokB"}
ExpiresInReplies == {TickSeconds + TokenSafetyMargin, LookbackSeconds}
BudgetParams == 0..MaxBudget
Commands == {"test-module", "identitynow-get-events", "fetch-events"}

VARIABLES
    integration,          \* "sailpoint" or "exabeam": the program of this instance
    now,                  \* wall clock, whole seconds
    integration_context,  \* persisted credential cache {token, expires}
    lastRun,              \* persisted cursor (demisto.getLastRun / setLastRun)
    index,                \* the vendor's events, ascending by id
    sink,                 \* events handed to send_events_to_xsiam and accepted
    params,               \* instance parameters (max_events_per_fetch)
    pc,                   \* position of the running invocation of main()
    command,              \* demisto.command()
    loc,                  \* demisto.args() and the locals of the running invocation
    results,              \* return_results / return_error entries of the invocation
    stats,                \* per-invocation counters of external effects
    hist                  \* history of the instance (completed fetch runs, ...)

vars == <<integration, now, integration_context, lastRun, index, sink, params,
          pc, command, loc, results, stats, hist>>

(* ------------------------------ values -------------------------------- *)
(* A command argument: the key is absent, present with no value (None),   *)
(* or a numeric string.                                                   *)
AbsentArg == [kind |-> "absent", n |-> 0]
NoneArg == [kind |-> "none", n |-> 0]
StrArg(n) == [kind |-> "str", n |-> n]
ArgValues == {AbsentArg, NoneArg} \cup {StrArg(n) : n \in 0..MaxArg}

ExaNoArgs == [page |-> AbsentArg, page_size |-> AbsentArg, limit |-> AbsentArg,
              start_time |-> None, end_time |-> None]
ExaNoRequest == [from |-> 0, size |-> 0, indices |-> <<>>]
ExaInitLoc == [args |-> ExaNoArgs, request |-> ExaNoRequest, outputs |-> <<>>]

ZeroStamp == Stamp(0, 0)
EmptyRun == [set |-> FALSE, prev_id |-> 0, prev_date |-> ZeroStamp]
Cursor(id, date) == [set |-> TRUE, prev_id |-> id, prev_date |-> date]
Unbound == [bound |-> FALSE, id |-> 0, created |-> ZeroStamp]
NoRequest == [prev_id |-> 0, from_date |-> ZeroStamp, limit |-> 0]
EmptyContext == [token |-> "", expires |-> None]
NoArgs == [limit |-> None, should_push_events |-> None, from_date |-> None]

RawRecord(i, c) == [id |-> i, created |-> Some(c), modified |-> None]

InitLoc == [args |-> NoArgs, token |-> "", DEFAULT_LOOKBACK |-> ZeroStamp,
            last_run |-> EmptyRun, max_events_per_fetch |-> 0,
            all_events |-> <<>>, last_fetched |-> Unbound,
            next_run |-> EmptyRun, events |-> <<>>, request |-> NoRequest]

InitStats == [tokenRequests |-> 0, loginRequests |-> 0, searchRequests |-> 0,
              sinkCalls |-> 0, cursorWrites |-> 0, contextWrites |-> 0,
              cachedTokens |-> 0, normalizations |-> 0, cursorReads |-> 0]

(* History kept for stating properties; the program does not read it.     *)
InitHist == [invocations |-> 0, outcome |-> "none", error |-> "none",
             lastRunAtStart |-> EmptyRun, contextAtStart |-> EmptyContext,
             startCursor |-> EmptyRun, startBudget |-> 0, responses |-> 0,
             firstEmpty |-> FALSE, lastResponse |-> <<>>, persisted |-> {},
             completed |-> None, refreshedAt |-> None, refreshedFor |-> None,
             cachedAt |-> None, reply |-> None, startedAt |-> None,
             checkedAt |-> None]

Ids(s) == [i \in 1..Len(s) |-> s[i].id]
IdSet(s) == {s[i].id : i \in 1..Len(s)}

(* ------------------------- Client.get_token --------------------------- *)
(* Variant with the comparison of line 87 turned around.                  *)
TokenIsValidInverted(ctx, t) ==
    /\ ctx.token # ""
    /\ ~IsNone(ctx.expires)
    /\ ctx.expires[1] # 0
    /\ t > ctx.expires[1]

(* get_token, lines 80-89: the cached token is used when token and        *)
(* valid_until are truthy and now < valid_until.                          *)
TokenIsValid(ctx, t) ==
    /\ ctx.token # ""
    /\ ~IsNone(ctx.expires)
    /\ ctx.expires[1] # 0
    /\ t < ctx.expires[1]

(* Variant storing the vendor's expiry without the safety margin.         *)
GeneratedContextNoMargin(ctx, access_token, expires_in, t) ==
    [ctx EXCEPT !.token = access_token, !.expires = Some(t + expires_in)]

(* generate_token, lines 59-67: what set_integration_context stores.      *)
GeneratedContext(ctx, access_token, expires_in, t) ==
    [ctx EXCEPT !.token = access_token,
                !.expires = Some((t + expires_in) - TokenSafetyMargin)]

(* ------------------------ Client.search_events ------------------------ *)
(* The vendor's answer set for the query of search_events: events created *)
(* in [from_date, now], after searchAfter prev_id, sorted by +id.         *)
Matching(req, t) ==
    SelectSeq(index, LAMBDA r : /\ r.id > req.prev_id
                                /\ StampLeq(req.from_date, r.created[1])
                                /\ StampLeq(r.created[1], Stamp(t, 0)))

(* The sizes of the responses the vendor may give: any non-empty prefix   *)
(* of the matching events up to the limit, nothing when nothing matches.  *)
ResponseSizes(req, t) ==
    LET m == Len(Matching(req, t))
    IN  IF m = 0 THEN {0} ELSE 1..Min(req.limit, m)

(* --------------------- add_time_and_status_to_events ------------------ *)
(* strftime(DATE_FORMAT) of a parsed timestamp: whole seconds, the        *)
(* fraction dropped.                                                       *)
FormatTime(dt) == dt.sec

(* event.get(key): None when the key is absent                            *)
Get(event, key) == IF key \in DOMAIN event THEN event[key] ELSE None

(* Variant of line 224 with >= in place of >.                             *)
IsModifiedOrEqual(event) ==
    /\ ~IsNone(Get(event, "modified"))
    /\ ~IsNone(Get(event, "created"))
    /\ StampLeq(Get(event, "created")[1], Get(event, "modified")[1])

(* lines 224-225: modified and created and modified > created             *)
IsModified(event) ==
    /\ ~IsNone(Get(event, "modified"))
    /\ ~IsNone(Get(event, "created"))
    /\ StampLess(Get(event, "created")[1], Get(event, "modified")[1])

(* Variant writing the parsed creation time back into the record.         *)
NormalizedEventParsedInPlace(event) ==
    [key \in DOMAIN event \cup {"_ENTRY_STATUS", "_time"} |->
        CASE key = "_ENTRY_STATUS" ->
                 IF IsModified(event) THEN "modified" ELSE "new"
          [] key = "_time" ->
                 IF IsModified(event)
                 THEN Some(FormatTime(Get(event, "modified")[1]))
                 ELSE IF ~IsNone(Get(event, "created"))
                      THEN Some(FormatTime(Get(event, "created")[1]))
                      ELSE None
          [] key = "created" /\ ~IsNone(event[key]) ->
                 Some(Stamp(FormatTime(event[key][1]), 0))
          [] OTHER -> event[key]]

(* lines 215-230, one pass of the loop: the record is updated in place,   *)
(* the keys _ENTRY_STATUS and _time are assigned and no other.            *)
NormalizedEvent(event) ==
    [key \in DOMAIN event \cup {"_ENTRY_STATUS", "_time"} |->
        CASE key = "_ENTRY_STATUS" ->
                 IF IsModified(event) THEN "modified" ELSE "new"
          [] key = "_time" ->
                 IF IsModified(event)
                 THEN Some(FormatTime(Get(event, "modified")[1]))
                 ELSE IF ~IsNone(Get(event, "created"))
                      THEN Some(FormatTime(Get(event, "created")[1]))
                      ELSE None
          [] OTHER -> event[key]]

add_time_and_status_to_events(events) ==
    [i \in 1..Len(events) |-> NormalizedEvent(events[i])]

(* ========================= Exabeam DataLake =========================== *)
(* Python truthiness of args.get(key): a non-empty string is truthy, also "0" *)
Truthy(v) == v.kind = "str"
(* args.get(key, default)                                                 *)
ArgGet(v, default) == IF v.kind = "absent" THEN default ELSE v
(* arg_to_number: None stays None, a numeric string is its number         *)
arg_to_number(v) == IF v.kind = "str" THEN Some(v.n) ELSE None
(* truthiness of an Optional[int]                                         *)
TruthyNumber(o) == ~IsNone(o) /\ o[1] # 0

(* Variant that misses the check for exactly one of page and page_size.   *)
PageArgsInvalidLimitOnly(a) ==
    Truthy(a.limit) /\ (Truthy(a.page) \/ Truthy(a.page_size))

(* calculate_page_parameters, line 115                                    *)
PageArgsInvalid(a) ==
    \/ Truthy(a.limit) /\ (Truthy(a.page) \/ Truthy(a.page_size))
    \/ ~(Truthy(a.page) /\ Truthy(a.page_size))
          /\ (Truthy(a.page) \/ Truthy(a.page_size))

(* Variant whose window starts one page further.                          *)
calculate_page_parametersNextPage(a) ==
    LET page == arg_to_number(ArgGet(a.page, StrArg(DefaultPage)))
        page_size == arg_to_number(ArgGet(a.page_size, StrArg(DefaultPageSize)))
        limit == arg_to_number(ArgGet(a.limit, StrArg(DefaultSize)))
    IN  IF TruthyNumber(page) /\ TruthyNumber(page_size)
        THEN [from_param |-> page[1] * page_size[1],
              size_param |-> page_size[1]]
        ELSE [from_param |-> 0,
              size_param |-> IF ~IsNone(limit) THEN limit[1] ELSE DefaultSize]

(* calculate_page_parameters, lines 118-129                               *)
calculate_page_parameters(a) ==
    LET page == arg_to_number(ArgGet(a.page, StrArg(DefaultPage)))
        page_size == arg_to_number(ArgGet(a.page_size, StrArg(DefaultPageSize)))
        limit == arg_to_number(ArgGet(a.limit, StrArg(DefaultSize)))
    IN  IF TruthyNumber(page) /\ TruthyNumber(page_size)
        THEN [from_param |-> page[1] * page_size[1] - page_size[1],
              size_param |-> page_size[1]]
        ELSE [from_param |-> 0,
              size_param |-> IF ~IsNone(limit) THEN limit[1] ELSE DefaultSize]

(* A time argument is a count of half days; get_date, lines 103-107,      *)
(* keeps its calendar day.                                                *)
get_date(time) == time \div 2

(* Variant without the check of the span.                                 *)
DatesErrorNoSpan(start_time, end_time) ==
    IF start_time >= end_time THEN "Start time must be before end time"
    ELSE ""

(* dates_in_range, lines 88-92: the two rejections                        *)
DatesError(start_time, end_time) ==
    IF start_time >= end_time THEN "Start time must be before end time"
    ELSE IF end_time - start_time > MaxSpanDays
         THEN "Difference between start time and end time must be less than or equal to 10 days"
         ELSE ""

(* dates_in_range, lines 94-98: the loop appending one day after another  *)
RECURSIVE DatesFrom(_, _)
DatesFrom(current_date, end_time) ==
    IF current_date <= end_time
    THEN <<current_date>> \o DatesFrom(current_date + 1, end_time)
    ELSE <<>>

(* Variant whose loop stops before the end day.                           *)
dates_in_rangeWithoutEnd(start_time, end_time) ==
    DatesFrom(start_time, end_time - 1)

(* dates_in_range, lines 94-100                                           *)
dates_in_range(start_time, end_time) == DatesFrom(start_time, end_time)


(* ===================== SailPoint IdentityNow: main ==================== *)
Done(h, outcome, err) == [h EXCEPT !.outcome = outcome, !.error = err]
Range(s) == {s[i] : i \in 1..Len(s)}

(* The invocation ends: the process exits and its locals are gone (the    *)
(* DataLake caller's arguments stay: they are the same at every call).    *)
Finish(h, outcome, err, entry) ==
    /\ loc' = IF integration = "sailpoint" THEN InitLoc
              ELSE [ExaInitLoc EXCEPT !.args = loc.args]
    /\ results' = IF entry = "" THEN results ELSE Append(results, entry)
    /\ hist' = [Done(h, outcome, err) EXCEPT !.lastResponse = <<>>,
                                             !.startedAt = None,
                                             !.checkedAt = None]
    /\ pc' = "idle"

(* Variant in which the handler logs the exception and returns nothing.   *)
ReturnErrorSilent(h, kind) == Finish(h, "error", kind, "")

(* main, lines 293-294: any exception ends the invocation in return_error *)
ReturnError(h, kind) == Finish(h, "error", kind, "error")

(* An exception leaving fetch_events: test_module (lines 138-142) turns   *)
(* one whose text contains 'Forbidden' into its diagnosis and re-raises   *)
(* any other; main (line 293) turns what reaches it into return_error.    *)
Raise(h, kind) ==
    IF command = "test-module" /\ kind = "Forbidden"
    THEN Finish(h, "ok", kind, "Authorization Error")
    ELSE ReturnError(h, kind)

(* fetch_events, lines 198-200, and the caller's next step: reading       *)
(* last_fetched_id before any assignment raises UnboundLocalError.        *)
FetchReturn(l, h) ==
    IF ~l.last_fetched.bound
    THEN Raise(h, "UnboundLocalError")
    ELSE IF command = "test-module"
         THEN Finish(h, "ok", "none", "ok")
         ELSE /\ loc' = [l EXCEPT !.next_run = Cursor(l.last_fetched.id,
                                                      l.last_fetched.created),
                                  !.events = l.all_events]
              /\ hist' = h
              /\ pc' = "normalize"
              /\ UNCHANGED results

(* main, lines 238-255: a fresh process; DEFAULT_LOOKBACK (line 16) is    *)
(* evaluated when the module is loaded.                                   *)
Invoke(cmd, a) ==
    /\ integration = "sailpoint"
    /\ pc = "idle"
    /\ hist.invocations < MaxInvocations
    /\ command' = cmd
    /\ loc' = [InitLoc EXCEPT !.args = a,
                              !.DEFAULT_LOOKBACK = Stamp(now - LookbackSeconds, 0)]
    /\ results' = <<>>
    /\ stats' = InitStats
    /\ hist' = [hist EXCEPT !.invocations = @ + 1, !.outcome = "running",
                            !.error = "none", !.lastRunAtStart = lastRun,
                            !.contextAtStart = integration_context,
                            !.startCursor = EmptyRun, !.startBudget = 0,
                            !.responses = 0, !.firstEmpty = FALSE,
                            !.lastResponse = <<>>, !.cachedAt = None,
                            !.startedAt = Some(now), !.checkedAt = None]
    /\ pc' = "get_token"
    /\ UNCHANGED <<integration, now, integration_context, lastRun, index, sink, params>>

(* Client.get_token, lines 80-89: the cached token.                       *)
GetTokenCached ==
    /\ pc = "get_token"
    /\ TokenIsValid(integration_context, now)
    /\ loc' = [loc EXCEPT !.token = integration_context.token]
    /\ stats' = [stats EXCEPT !.cachedTokens = @ + 1]
    /\ hist' = [hist EXCEPT !.cachedAt = Some(now), !.checkedAt = Some(now)]
    /\ pc' = "dispatch"
    /\ UNCHANGED <<integration, now, integration_context, lastRun, index, sink,
                   params, command, results>>

(* Client.get_token, lines 91-92: no valid token, generate_token is called *)
GetTokenExpired ==
    /\ pc = "get_token"
    /\ ~TokenIsValid(integration_context, now)
    /\ hist' = [hist EXCEPT !.checkedAt = Some(now)]
    /\ pc' = "generate_token"
    /\ UNCHANGED <<integration, now, integration_context, lastRun, index, sink,
                   params, command, loc, results, stats>>

(* Client.generate_token, lines 47-69: the vendor answers the exchange.   *)
GenerateTokenReply(access_token, expires_in) ==
    /\ pc = "generate_token"
    /\ integration_context' =
           GeneratedContext(integration_context, access_token, expires_in, now)
    /\ loc' = [loc EXCEPT !.token = access_token]
    /\ stats' = [stats EXCEPT !.tokenRequests = @ + 1, !.contextWrites = @ + 1]
    /\ hist' = [hist EXCEPT !.refreshedAt = Some(now),
                            !.refreshedFor = Some(expires_in)]
    /\ pc' = "dispatch"
    /\ UNCHANGED <<integration, now, lastRun, index, sink, params, command, results>>

(* Variant in which a failed exchange is attempted a second time.         *)
GenerateTokenFailAfterRetry ==
    /\ pc = "generate_token"
    /\ stats' = [stats EXCEPT !.tokenRequests = @ + 2]
    /\ ReturnError(hist, "Failed to get token")
    /\ UNCHANGED <<integration, now, integration_context, lastRun, index, sink,
                   params, command>>

(* Client.generate_token, line 48 raising (or line 61 on a reply without  *)
(* expires_in); Client.__init__, lines 37-38, wraps it; main returns error *)
GenerateTokenFail ==
    /\ pc = "generate_token"
    /\ stats' = [stats EXCEPT !.tokenRequests = @ + 1]
    /\ ReturnError(hist, "Failed to get token")
    /\ UNCHANGED <<integration, now, integration_context, lastRun, index, sink,
                   params, command>>

(* main, lines 257-258, and test_module, lines 131-136                    *)
TestModuleStart ==
    /\ pc = "dispatch"
    /\ command = "test-module"
    /\ loc' = [loc EXCEPT !.last_run = EmptyRun, !.max_events_per_fetch = 1,
                          !.all_events = <<>>]
    /\ hist' = [hist EXCEPT !.startCursor = EmptyRun, !.startBudget = 1]
    /\ pc' = "loop"
    /\ UNCHANGED <<integration, now, integration_context, lastRun, index, sink,
                   params, command, results, stats>>

(* main, line 246                                                         *)
MaxEventsParam == IF params.max_events_per_fetch = 0 THEN DefaultMaxEvents
                  ELSE params.max_events_per_fetch

(* main, lines 276-282, and fetch_events, line 178                        *)
FetchEventsStart ==
    /\ pc = "dispatch"
    /\ command = "fetch-events"
    /\ loc' = [loc EXCEPT !.last_run = lastRun,
                          !.max_events_per_fetch = MaxEventsParam,
                          !.all_events = <<>>]
    /\ hist' = [hist EXCEPT !.startCursor = lastRun, !.startBudget = MaxEventsParam]
    /\ stats' = [stats EXCEPT !.cursorReads = @ + 1]
    /\ pc' = "loop"
    /\ UNCHANGED <<integration, now, integration_context, lastRun, index, sink,
                   params, command, results>>

(* Variant whose search-after marker ignores the cursor.                  *)
FetchRequestFromStart(l) ==
    [prev_id |-> 0,
     from_date |-> IF l.last_run.set THEN l.last_run.prev_date
                   ELSE l.DEFAULT_LOOKBACK,
     limit |-> l.max_events_per_fetch]

(* Variant asking from the cursor the run was given at every iteration.   *)
FetchRequestInputCursor(l) ==
    [prev_id |-> IF hist.startCursor.set THEN hist.startCursor.prev_id ELSE 0,
     from_date |-> IF hist.startCursor.set THEN hist.startCursor.prev_date
                   ELSE l.DEFAULT_LOOKBACK,
     limit |-> l.max_events_per_fetch]

(* fetch_events, lines 181-185: the request of one iteration              *)
FetchRequest(l) ==
    [prev_id |-> IF l.last_run.set THEN l.last_run.prev_id ELSE 0,
     from_date |-> IF l.last_run.set THEN l.last_run.prev_date
                   ELSE l.DEFAULT_LOOKBACK,
     limit |-> l.max_events_per_fetch]

(* fetch_events, line 179: the loop is entered while the budget is left   *)
LoopContinues(l) == l.max_events_per_fetch > 0

SearchRequest ==
    /\ pc = "loop"
    /\ LoopContinues(loc)
    /\ loc' = [loc EXCEPT !.request = FetchRequest(loc)]
    /\ stats' = [stats EXCEPT !.searchRequests = @ + 1]
    /\ pc' = "search"
    /\ UNCHANGED <<integration, now, integration_context, lastRun, index, sink,
                   params, command, results, hist>>

(* fetch_events, line 179 false: the budget is used up                    *)
LoopExit ==
    /\ pc = "loop"
    /\ ~LoopContinues(loc)
    /\ FetchReturn(loc, hist)
    /\ UNCHANGED <<integration, now, integration_context, lastRun, index, sink,
                   params, command, stats>>

(* Variant taking the cursor from the first record of the response.       *)
AccumulateFirstRecord(l, events) ==
    LET first == events[1]
    IN  [l EXCEPT !.last_fetched = [bound |-> TRUE, id |-> first.id,
                                    created |-> first.created[1]],
                  !.last_run = Cursor(first.id, first.created[1]),
                  !.max_events_per_fetch = @ - Len(events),
                  !.all_events = @ \o events]

(* Variant that leaves the remaining budget as it was.                    *)
AccumulateNoBudget(l, events) ==
    LET last == events[Len(events)]
    IN  [l EXCEPT !.last_fetched = [bound |-> TRUE, id |-> last.id,
                                    created |-> last.created[1]],
                  !.last_run = Cursor(last.id, last.created[1]),
                  !.all_events = @ \o events]

(* fetch_events, lines 189-196: a non-empty response is taken in          *)
Accumulate(l, events) ==
    LET last == events[Len(events)]
    IN  [l EXCEPT !.last_fetched = [bound |-> TRUE, id |-> last.id,
                                    created |-> last.created[1]],
                  !.last_run = Cursor(last.id, last.created[1]),
                  !.max_events_per_fetch = @ - Len(events),
                  !.all_events = @ \o events]

(* fetch_events, lines 186-196: the vendor's answer of k events           *)
SearchResponse(k) ==
    /\ pc = "search"
    /\ k \in ResponseSizes(loc.request, now)
    /\ LET events == SubSeq(Matching(loc.request, now), 1, k)
           h == [hist EXCEPT !.responses = @ + 1,
                             !.firstEmpty = (hist.responses = 0 /\ k = 0),
                             !.lastResponse = events]
       IN  IF k = 0
           THEN FetchReturn(loc, h)
           ELSE /\ loc' = Accumulate(loc, events)
                /\ hist' = h
                /\ pc' = "loop"
                /\ UNCHANGED results
    /\ UNCHANGED <<integration, now, integration_context, lastRun, index, sink,
                   params, command, stats>>

(* Client.search_events, line 119 raising inside fetch_events             *)
SearchFail(kind) ==
    /\ pc = "search"
    /\ Raise(hist, kind)
    /\ UNCHANGED <<integration, now, integration_context, lastRun, index, sink,
                   params, command, stats>>

(* main, lines 262-265: the request of the interactive command            *)
GetEventsRequest(l) ==
    [prev_id |-> 0,
     from_date |-> IF IsNone(l.args.from_date) THEN l.DEFAULT_LOOKBACK
                   ELSE Stamp(FormatTime(l.args.from_date[1]), 0),
     limit |-> IF IsNone(l.args.limit) \/ l.args.limit[1] = 0
               THEN DefaultLimit ELSE l.args.limit[1]]

(* main, lines 261-266, and get_events, lines 157-161; argToBoolean of a  *)
(* missing should_push_events raises ValueError                           *)
GetEventsStart ==
    /\ pc = "dispatch"
    /\ command = "identitynow-get-events"
    /\ IF IsNone(loc.args.should_push_events)
       THEN /\ ReturnError(hist, "ValueError")
            /\ UNCHANGED stats
       ELSE /\ loc' = [loc EXCEPT !.request = GetEventsRequest(loc)]
            /\ stats' = [stats EXCEPT !.searchRequests = @ + 1]
            /\ pc' = "get_events_search"
            /\ UNCHANGED <<results, hist>>
    /\ UNCHANGED <<integration, now, integration_context, lastRun, index, sink,
                   params, command>>

(* Variant that sends the events whatever should_push_events says.        *)
GetEventsResponseAlwaysPush(k) ==
    /\ pc = "get_events_search"
    /\ k \in ResponseSizes(loc.request, now)
    /\ loc' = [loc EXCEPT !.events = SubSeq(Matching(loc.request, now), 1, k)]
    /\ results' = Append(results, "events")
    /\ pc' = "normalize"
    /\ hist' = [hist EXCEPT !.lastResponse =
                                SubSeq(Matching(loc.request, now), 1, k)]
    /\ UNCHANGED <<integration, now, integration_context, lastRun, index, sink,
                   params, command, stats>>

(* get_events, lines 162-163, and main, lines 267-268                     *)
GetEventsResponse(k) ==
    /\ pc = "get_events_search"
    /\ k \in ResponseSizes(loc.request, now)
    /\ IF loc.args.should_push_events[1]
       THEN /\ loc' = [loc EXCEPT !.events = SubSeq(Matching(loc.request, now), 1, k)]
            /\ results' = Append(results, "events")
            /\ pc' = "normalize"
            /\ hist' = [hist EXCEPT !.lastResponse =
                                        SubSeq(Matching(loc.request, now), 1, k)]
       ELSE Finish(hist, "ok", "none", "events")
    /\ UNCHANGED <<integration, now, integration_context, lastRun, index, sink,
                   params, command, stats>>

(* Client.search_events, line 119 raising inside get_events               *)
GetEventsFail(kind) ==
    /\ pc = "get_events_search"
    /\ ReturnError(hist, kind)
    /\ UNCHANGED <<integration, now, integration_context, lastRun, index, sink,
                   params, command, stats>>

(* main, lines 269 and 284                                                *)
Normalize ==
    /\ pc = "normalize"
    /\ loc' = [loc EXCEPT !.events = add_time_and_status_to_events(loc.events)]
    /\ stats' = [stats EXCEPT !.normalizations = @ + 1]
    /\ pc' = "send"
    /\ UNCHANGED <<integration, now, integration_context, lastRun, index, sink,
                   params, command, results, hist>>

(* add_time_and_status_to_events applied once more to the list it has     *)
(* already updated (a second call on the same list object)                *)
NormalizeAgain ==
    /\ pc = "send"
    /\ stats.normalizations < MaxPasses
    /\ loc' = [loc EXCEPT !.events = add_time_and_status_to_events(loc.events)]
    /\ stats' = [stats EXCEPT !.normalizations = @ + 1]
    /\ UNCHANGED <<integration, now, integration_context, lastRun, index, sink,
                   params, pc, command, results, hist>>

(* add_time_and_status_to_events raising (datetime.fromisoformat, lines   *)
(* 218 and 222, on a timestamp it cannot parse)                           *)
NormalizeFail ==
    /\ pc = "normalize"
    /\ ReturnError(hist, "ValueError")
    /\ UNCHANGED <<integration, now, integration_context, lastRun, index, sink,
                   params, command, stats>>

(* Variant persisting the cursor after the sink call of any command.      *)
SendEventsAlwaysPersist ==
    /\ pc = "send"
    /\ sink' = sink \cup Range(loc.events)
    /\ stats' = [stats EXCEPT !.sinkCalls = @ + 1]
    /\ pc' = "set_last_run"
    /\ UNCHANGED <<integration, now, integration_context, lastRun, index, params,
                   command, loc, results, hist>>

(* main, lines 270-274 and 285-289: the sink accepts the events           *)
SendEvents ==
    /\ pc = "send"
    /\ sink' = sink \cup Range(loc.events)
    /\ stats' = [stats EXCEPT !.sinkCalls = @ + 1]
    /\ IF command = "fetch-events"
       THEN pc' = "set_last_run" /\ UNCHANGED <<loc, results, hist>>
       ELSE Finish(hist, "ok", "none", "")
    /\ UNCHANGED <<integration, now, integration_context, lastRun, index, params,
                   command>>

(* Variant in which a failure of the sink call is swallowed.              *)
SendEventsFailSwallowed(j) ==
    /\ pc = "send"
    /\ j \in 0..Len(loc.events)
    /\ sink' = sink \cup Range(SubSeq(loc.events, 1, j))
    /\ stats' = [stats EXCEPT !.sinkCalls = @ + 1]
    /\ pc' = "set_last_run"
    /\ UNCHANGED <<integration, now, integration_context, lastRun, index, params,
                   command, loc, results, hist>>

(* send_events_to_xsiam raising after the sink took the first j events    *)
SendEventsFail(j) ==
    /\ pc = "send"
    /\ j \in 0..Len(loc.events)
    /\ sink' = sink \cup Range(SubSeq(loc.events, 1, j))
    /\ stats' = [stats EXCEPT !.sinkCalls = @ + 1]
    /\ ReturnError(hist, "sink")
    /\ UNCHANGED <<integration, now, integration_context, lastRun, index, params,
                   command>>

(* main, line 290                                                         *)
SetLastRun ==
    /\ pc = "set_last_run"
    /\ lastRun' = loc.next_run
    /\ stats' = [stats EXCEPT !.cursorWrites = @ + 1]
    /\ Finish([hist EXCEPT !.completed =
                   Some([start |-> hist.startCursor,
                         lookback |-> loc.DEFAULT_LOOKBACK,
                         batch |-> Ids(loc.all_events),
                         next |-> loc.next_run]),
                            !.persisted = @ \cup IdSet(loc.all_events)],
              "ok", "none", "")
    /\ UNCHANGED <<integration, now, integration_context, index, sink, params,
                   command>>

(* The host kills the process (timeout) at any point of the invocation.   *)
Abort ==
    /\ integration = "sailpoint"
    /\ pc # "idle"
    /\ Finish(hist, "aborted", "none", "")
    /\ UNCHANGED <<integration, now, integration_context, lastRun, index, sink,
                   params, command, stats>>

(* Time passes, between invocations and at any point inside one: the     *)
(* clock is read when the module is loaded (line 16), in get_token (line  *)
(* 84) and, after the token request, in generate_token (line 60).  The    *)
(* DataLake integration reads no clock, so its instance keeps the first   *)
(* value.                                                                 *)
Tick ==
    /\ integration = "sailpoint"
    /\ now < MaxNow
    /\ now' = now + TickSeconds
    /\ UNCHANGED <<integration, integration_context, lastRun, index, sink, params,
                   pc, command, loc, results, stats, hist>>

(* ======================= Exabeam DataLake: main ======================= *)
ExaCommands == {"test-module", "exabeam-data-lake-search", "unsupported"}

(* main, lines 205-216                                                    *)
ExaInvoke(cmd, a) ==
    /\ integration = "exabeam"
    /\ pc = "idle"
    /\ hist.invocations < MaxInvocations
    /\ command' = cmd
    /\ loc' = [ExaInitLoc EXCEPT !.args = a]
    /\ results' = <<>>
    /\ stats' = InitStats
    /\ hist' = [hist EXCEPT !.invocations = @ + 1, !.outcome = "running",
                            !.error = "none", !.reply = None]
    /\ pc' = "login"
    /\ UNCHANGED <<integration, now, integration_context, lastRun, index, sink, params>>

(* Client.__init__ and _login, lines 22-44: the login request succeeds    *)
ExaLogin ==
    /\ pc = "login"
    /\ stats' = [stats EXCEPT !.loginRequests = @ + 1]
    /\ pc' = "exa_dispatch"
    /\ UNCHANGED <<integration, now, integration_context, lastRun, index, sink,
                   params, command, loc, results, hist>>

(* _login, line 39 raising; main, lines 238-239                           *)
ExaLoginFail ==
    /\ pc = "login"
    /\ stats' = [stats EXCEPT !.loginRequests = @ + 1]
    /\ ReturnError(hist, "login")
    /\ UNCHANGED <<integration, now, integration_context, lastRun, index, sink,
                   params, command>>

(* main, lines 231-232, and test_module_request, line 50                  *)
ExaTestModule(ok) ==
    /\ pc = "exa_dispatch"
    /\ command = "test-module"
    /\ IF ok THEN Finish(hist, "ok", "none", "ok")
       ELSE ReturnError(hist, "Transport")
    /\ UNCHANGED <<integration, now, integration_context, lastRun, index, sink,
                   params, command, stats>>

(* main, lines 235-236                                                    *)
ExaUnsupported ==
    /\ pc = "exa_dispatch"
    /\ command \notin {"test-module", "exabeam-data-lake-search"}
    /\ ReturnError(hist, "NotImplementedError")
    /\ UNCHANGED <<integration, now, integration_context, lastRun, index, sink,
                   params, command, stats>>

(* query_datalake_command, lines 143-170: validation and the one request; *)
(* strptime of a missing time raises ValueError                           *)
QueryError(a) ==
    IF PageArgsInvalid(a)
    THEN "You can only provide 'limit' alone or 'page' and 'page_size' together."
    ELSE IF IsNone(a.start_time) \/ IsNone(a.end_time) THEN "ValueError"
    ELSE DatesError(get_date(a.start_time[1]), get_date(a.end_time[1]))

QueryRequest(a) ==
    LET window == calculate_page_parameters(a)
    IN  [from |-> window.from_param, size |-> window.size_param,
         indices |-> dates_in_range(get_date(a.start_time[1]),
                                    get_date(a.end_time[1]))]

(* Variant that sends the search request before it validates.            *)
ExaQueryStartRequestFirst ==
    /\ pc = "exa_dispatch"
    /\ command = "exabeam-data-lake-search"
    /\ stats' = [stats EXCEPT !.searchRequests = @ + 1]
    /\ IF QueryError(loc.args) # ""
       THEN ReturnError(hist, QueryError(loc.args))
       ELSE /\ loc' = [loc EXCEPT !.request = QueryRequest(loc.args)]
            /\ pc' = "exa_search"
            /\ UNCHANGED <<results, hist>>
    /\ UNCHANGED <<integration, now, integration_context, lastRun, index, sink,
                   params, command>>

ExaQueryStart ==
    /\ pc = "exa_dispatch"
    /\ command = "exabeam-data-lake-search"
    /\ IF QueryError(loc.args) # ""
       THEN /\ ReturnError(hist, QueryError(loc.args))
            /\ UNCHANGED stats
       ELSE /\ loc' = [loc EXCEPT !.request = QueryRequest(loc.args)]
            /\ stats' = [stats EXCEPT !.searchRequests = @ + 1]
            /\ pc' = "exa_search"
            /\ UNCHANGED <<results, hist>>
    /\ UNCHANGED <<integration, now, integration_context, lastRun, index, sink,
                   params, command>>

(* query_datalake_command, lines 172-185: the vendor's response object.   *)
(* kind "none": no "responses" key; "no_responses": an empty "responses"  *)
(* list; "error": an error object whose first root cause has the reason;  *)
(* "unknown": an error object without a "root_cause" key; "no_root_cause": *)
(* an error object with an empty "root_cause" list; "empty": a first      *)
(* response object without keys; "hits": a first response object with the *)
(* hits listed, followed by others further response objects of one hit.   *)
ExaReasons == {"test response", "parse failure"}

(* The hits of a response object: distinct entries, named by their _id,   *)
(* in any order.                                                          *)
HitLists ==
    {hits \in UNION {[1..n -> 1..MaxArg] : n \in 0..MaxArg} :
        \A i, j \in 1..Len(hits) : hits[i] = hits[j] => i = j}

ExaResponses ==
    {[kind |-> k, hits |-> <<>>, others |-> 0, reason |-> ""] :
        k \in {"none", "no_responses", "unknown", "no_root_cause", "empty"}}
        \cup {[kind |-> "error", hits |-> <<>>, others |-> 0, reason |-> r] :
                  r \in ExaReasons}
        \cup {[kind |-> "hits", hits |-> h, others |-> o, reason |-> ""] :
                  h \in HitLists, o \in 0..1}

(* Variant returning the hits of every response object.                   *)
QueryOutputsAllResponses(resp) ==
    resp.hits \o [i \in 1..resp.others |-> MaxArg + i]

(* lines 177 and 183: response[0].get("hits", {}).get("hits", []), as     *)
(* received                                                               *)
QueryOutputs(resp) == resp.hits

(* lines 179 and 184: tableToMarkdown of the parsed entries               *)
QueryTable(data_response) ==
    IF data_response = <<>> THEN "No entries" ELSE "Logs"

(* lines 172-175: response[0] of an empty list and root_cause[0] of an    *)
(* empty list raise IndexError; an error object raises DemistoException   *)
QueryResponseError(resp) ==
    IF resp.kind \in {"no_responses", "no_root_cause"} THEN "IndexError"
    ELSE IF resp.kind = "error" THEN "Error in query: " \o resp.reason
    ELSE IF resp.kind = "unknown" THEN "Error in query: Unknown error occurred"
    ELSE ""

(* Variant that takes an error object for a response without hits.        *)
ExaQueryResponseIgnoresError(resp) ==
    /\ pc = "exa_search"
    /\ loc' = [ExaInitLoc EXCEPT !.args = loc.args,
                                 !.outputs = QueryOutputs(resp)]
    /\ results' = Append(results, QueryTable(QueryOutputs(resp)))
    /\ hist' = Done([hist EXCEPT !.reply = Some(resp)], "ok", "none")
    /\ pc' = "idle"
    /\ UNCHANGED <<integration, now, integration_context, lastRun, index, sink,
                   params, command, stats>>

ExaQueryResponse(resp) ==
    /\ pc = "exa_search"
    /\ IF QueryResponseError(resp) # ""
       THEN ReturnError([hist EXCEPT !.reply = Some(resp)], QueryResponseError(resp))
       ELSE /\ loc' = [ExaInitLoc EXCEPT !.args = loc.args,
                                         !.outputs = QueryOutputs(resp)]
            /\ results' = Append(results, QueryTable(QueryOutputs(resp)))
            /\ hist' = Done([hist EXCEPT !.reply = Some(resp)], "ok", "none")
            /\ pc' = "idle"
    /\ UNCHANGED <<integration, now, integration_context, lastRun, index, sink,
                   params, command, stats>>

(* query_datalake_request, line 53 raising                                *)
ExaQueryFail ==
    /\ pc = "exa_search"
    /\ ReturnError(hist, "Transport")
    /\ UNCHANGED <<integration, now, integration_context, lastRun, index, sink,
                   params, command, stats>>

(* Times are counted in half days from day 0: start on day 0 or day 2,    *)
(* end on day 0, 1, 9, 10 or 11.                                          *)
ExaArgs ==
    [page : ArgValues, page_size : ArgValues, limit : ArgValues,
     start_time : {None, Some(1), Some(4)},
     end_time : {None, Some(1), Some(2), Some(2 * MaxSpanDays - 1),
                 Some(2 * MaxSpanDays), Some(2 * (MaxSpanDays + 1))}]

(* demisto.command() of an invocation is any of these; demisto.args() are *)
(* the arguments of the instance's caller, drawn in Init                  *)
ExaInvokeAny ==
    /\ integration = "exabeam"
    /\ pc = "idle"
    /\ \E cmd \in ExaCommands : ExaInvoke(cmd, loc.args)

(* ------------------------------ Init ---------------------------------- *)
Indexes ==
    UNION {{[i \in 1..n |-> RawRecord(i, c[i])] : c \in [1..n -> CreatedTimes]}
           : n \in 0..NumRecords}

GetEventsArgs ==
    {a \in [limit : {None, Some(1)},
            should_push_events : {None, Some(TRUE), Some(FALSE)},
            from_date : {None, Some(Stamp(TickSeconds, HalfSecondMicros))}] :
        IsNone(a.should_push_events) => IsNone(a.limit) /\ IsNone(a.from_date)}

InitCommon ==
    /\ now = NowStart
    /\ integration_context = EmptyContext
    /\ lastRun = EmptyRun
    /\ sink = {}
    /\ pc = "idle"
    /\ command = "none"
    /\ results = <<>>
    /\ stats = InitStats
    /\ hist = InitHist

InitSailPoint ==
    /\ integration = "sailpoint"
    /\ index \in Indexes
    /\ params \in [max_events_per_fetch : BudgetParams]
    /\ loc = InitLoc

InitExabeam ==
    /\ integration = "exabeam"
    /\ index = <<>>
    /\ params = [max_events_per_fetch |-> 0]
    /\ loc \in {[ExaInitLoc EXCEPT !.args = a] : a \in ExaArgs}

Init == InitCommon /\ (InitSailPoint \/ InitExabeam)

Next ==
    \/ \E cmd \in {"test-module", "fetch-events"} : Invoke(cmd, NoArgs)
    \/ \E a \in GetEventsArgs : Invoke("identitynow-get-events", a)
    \/ GetTokenCached
    \/ GetTokenExpired
    \/ GenerateTokenReply("tokA", TickSeconds + TokenSafetyMargin)
    \/ GenerateTokenFail
    \/ TestModuleStart
    \/ FetchEventsStart
    \/ SearchRequest
    \/ LoopExit
    \/ \E k \in 0..NumRecords : SearchResponse(k)
    \/ \E kind \in {"Forbidden", "Transport"} : SearchFail(kind)
    \/ GetEventsStart
    \/ \E k \in 0..NumRecords : GetEventsResponse(k)
    \/ \E kind \in {"Forbidden", "Transport"} : GetEventsFail(kind)
    \/ Normalize
    \/ NormalizeFail
    \/ SendEvents
    \/ \E j \in 0..NumRecords : SendEventsFail(j)
    \/ SetLastRun
    \/ Abort
    \/ Tick
    \/ ExaInvokeAny
    \/ ExaLogin
    \/ ExaLoginFail
    \/ \E ok \in BOOLEAN : ExaTestModule(ok)
    \/ ExaUnsupported
    \/ ExaQueryStart
    \/ \E resp \in ExaResponses : ExaQueryResponse(resp)
    \/ ExaQueryFail

Spec == Init /\ [][Next]_vars

(* --------------------- the credential cache alone --------------------- *)
(* The connection test against a vendor with no events, with every reply  *)
(* the token endpoint may give.                                           *)
InitToken ==
    /\ InitCommon
    /\ integration = "sailpoint"
    /\ index = <<>>
    /\ params = [max_events_per_fetch |-> 0]
    /\ loc = InitLoc

NextToken ==
    \/ Invoke("test-module", NoArgs)
    \/ GetTokenCached
    \/ GetTokenExpired
    \/ \E access_token \in TokenReplies, expires_in \in ExpiresInReplies :
           GenerateTokenReply(access_token, expires_in)
    \/ GenerateTokenFail
    \/ TestModuleStart
    \/ SearchRequest
    \/ SearchResponse(0)
    \/ \E kind \in {"Forbidden", "Transport"} : SearchFail(kind)
    \/ Abort
    \/ Tick

SpecToken == InitToken /\ [][NextToken]_vars

(* ------------------ add_time_and_status_to_events alone ---------------- *)
(* The timestamps a record may carry in created and in modified: none,    *)
(* or one of three instants of which two fall in the same second.         *)
StampOptions ==
    {None, Some(Stamp(0, 0)), Some(Stamp(0, HalfSecondMicros)),
     Some(Stamp(TickSeconds, HalfSecondMicros))}

(* A record of the search response: with both timestamp keys, or with     *)
(* neither of them.                                                       *)
NormalizeRecords(i) ==
    {[id |-> i, type |-> "AUTH", created |-> c, modified |-> m] :
         c \in StampOptions, m \in StampOptions}
    \cup {[id |-> i, type |-> "AUTH"]}

NormalizeInputs ==
    UNION {{events \in [1..n -> UNION {NormalizeRecords(i) : i \in 1..n}] :
                \A i \in 1..n : events[i] \in NormalizeRecords(i)} :
           n \in 0..MaxList}

(* identitynow-get-events {should_push_events: true} at line 268: the     *)
(* Client was built with a token just generated, or with the valid token  *)
(* of an earlier invocation (cached), the one search request was answered *)
(* with events and the result was returned; the events are about to be    *)
(* normalised and sent.                                                   *)
NormalizeContext ==
    GeneratedContext(EmptyContext, "tokA", TickSeconds + TokenSafetyMargin,
                     NowStart)

NormalizeLoc(events) ==
    LET l == [InitLoc EXCEPT !.args.should_push_events = Some(TRUE),
                             !.token = NormalizeContext.token,
                             !.DEFAULT_LOOKBACK =
                                 Stamp(NowStart - LookbackSeconds, 0)]
    IN  [l EXCEPT !.request = GetEventsRequest(l), !.events = events]

NormalizeHist(events, cached) ==
    [InitHist EXCEPT !.invocations = IF cached THEN 2 ELSE 1,
                     !.outcome = "running",
                     !.contextAtStart = IF cached THEN NormalizeContext
                                        ELSE EmptyContext,
                     !.lastResponse = events,
                     !.refreshedAt = Some(NowStart),
                     !.refreshedFor = Some(TickSeconds + TokenSafetyMargin),
                     !.cachedAt = IF cached THEN Some(NowStart) ELSE None,
                     !.startedAt = Some(NowStart),
                     !.checkedAt = Some(NowStart)]

NormalizeStats(cached) ==
    IF cached
    THEN [InitStats EXCEPT !.cachedTokens = 1, !.searchRequests = 1]
    ELSE [InitStats EXCEPT !.tokenRequests = 1, !.contextWrites = 1,
                           !.searchRequests = 1]

InitNormalize ==
    /\ now = NowStart
    /\ integration = "sailpoint"
    /\ integration_context = NormalizeContext
    /\ lastRun = EmptyRun
    /\ index = <<>>
    /\ sink = {}
    /\ params = [max_events_per_fetch |-> 0]
    /\ pc = "normalize"
    /\ command = "identitynow-get-events"
    /\ \E events \in NormalizeInputs, cached \in BOOLEAN :
           /\ loc = NormalizeLoc(events)
           /\ hist = NormalizeHist(events, cached)
           /\ stats = NormalizeStats(cached)
    /\ results = <<"events">>

NextNormalize ==
    \/ Normalize
    \/ NormalizeAgain
    \/ NormalizeFail
    \/ SendEvents
    \/ \E j \in 0..MaxList : SendEventsFail(j)
    \/ Abort

SpecNormalize == InitNormalize /\ [][NextNormalize]_vars

(* ====================== properties of the programs ===================== *)
TimeOrdered ==
    \A i \in 1..(Len(index) - 1) :
        StampLeq(index[i].created[1], index[i + 1].created[1])

Delivered == {e.id : e \in sink}

(* the states inside the loop of fetch_events                             *)
InFetchLoop == integration = "sailpoint" /\ pc \in {"loop", "search"}

(* the states of the scheduled fetch after fetch_events returned          *)
AfterFetch ==
    command = "fetch-events" /\ pc \in {"normalize", "send", "set_last_run"}

(* C3: when the first vendor response of a run of fetch_events is empty,  *)
(* the run completes normally, with an empty event list and the input     *)
(* cursor as the next cursor.  The code raises UnboundLocalError instead. *)
C3_EmptyFirstResponseCompletes ==
    hist.firstEmpty =>
        /\ hist.outcome # "error"
        /\ hist.error # "UnboundLocalError"
        /\ pc = "normalize" => loc.events = <<>> /\ loc.next_run = hist.startCursor

(* C5: the persisted cursor is written only by the scheduled fetch after  *)
(* a successful batch, its id never decreases, and an invocation that     *)
(* receives no records leaves it as it was.                               *)
C5_CursorAdvanceOnly ==
    integration = "sailpoint" =>
        /\ stats.cursorWrites > 0 =>
              /\ command = "fetch-events"
              /\ hist.outcome = "ok"
              /\ stats.cursorWrites = 1
              /\ ~IsNone(hist.completed)
              /\ Len(hist.completed[1].batch) > 0
              /\ lastRun = hist.completed[1].next
              /\ lastRun.set
        /\ stats.cursorWrites = 0 => lastRun = hist.lastRunAtStart
        /\ hist.lastRunAtStart.set =>
              lastRun.set /\ lastRun.prev_id >= hist.lastRunAtStart.prev_id
        /\ (hist.firstEmpty \/ command # "fetch-events") =>
              lastRun = hist.lastRunAtStart

C5_Witness ==
    /\ command = "fetch-events"
    /\ stats.cursorWrites = 1
    /\ hist.lastRunAtStart.set
    /\ lastRun.prev_id > hist.lastRunAtStart.prev_id

(* C6: fetch_events stops exactly when the budget is used up or a         *)
(* response is empty; every non-empty response lowers the budget by its   *)
(* number of records; a run makes at most one request more than it        *)
(* returns events, and returns at most max_events_per_fetch events.       *)
C6_BudgetBoundsRun ==
    /\ InFetchLoop =>
          /\ hist.startBudget > 0
          /\ loc.max_events_per_fetch = hist.startBudget - Len(loc.all_events)
          /\ hist.responses <= Len(loc.all_events)
          /\ stats.searchRequests <= Len(loc.all_events) + 1
          /\ Len(loc.all_events) <= hist.startBudget
          /\ pc = "search" => loc.max_events_per_fetch > 0
          /\ hist.responses > 0 => hist.lastResponse # <<>>
    /\ AfterFetch =>
          /\ loc.max_events_per_fetch <= 0 \/ hist.lastResponse = <<>>
          /\ loc.max_events_per_fetch = hist.startBudget - Len(loc.all_events)
          /\ Len(loc.all_events) <= hist.startBudget
          /\ stats.searchRequests <= hist.startBudget + 1

C6_Witness ==
    /\ AfterFetch
    /\ pc = "normalize"
    /\ hist.startBudget = MaxBudget
    /\ loc.max_events_per_fetch = 0
    /\ Len(loc.all_events) = MaxBudget
    /\ Len(index) > MaxBudget

(* C9: a failed credential exchange (SailPoint token request, Exabeam     *)
(* login) ends the command with a failure result after exactly one        *)
(* credential request, with no search request, nothing sent to the sink   *)
(* and neither the cursor nor the credential store written.               *)
C9_CredentialFailureAborts ==
    hist.error \in {"Failed to get token", "login"} =>
        /\ pc = "idle"
        /\ hist.outcome = "error"
        /\ results = <<"error">>
        /\ stats.tokenRequests + stats.loginRequests = 1
        /\ stats.tokenRequests = (IF integration = "sailpoint" THEN 1 ELSE 0)
        /\ stats.searchRequests = 0
        /\ stats.sinkCalls = 0
        /\ stats.cursorWrites = 0
        /\ stats.contextWrites = 0
        /\ lastRun = hist.lastRunAtStart
        /\ integration_context = hist.contextAtStart

C9_Witness ==
    /\ hist.error = "Failed to get token"
    /\ command = "fetch-events"
    /\ hist.lastRunAtStart.set
    /\ Len(index) > hist.lastRunAtStart.prev_id

(* C10: with limit alone (page and page_size absent or without a value)   *)
(* the window of the search request is from = 0 and size = limit.  The    *)
(* code answers size 50 when the two keys are absent.                     *)
C10_LimitAloneWindow ==
    (/\ integration = "exabeam"
     /\ pc = "exa_search"
     /\ loc.args.page \in {AbsentArg, NoneArg}
     /\ loc.args.page_size \in {AbsentArg, NoneArg}
     /\ loc.args.limit.kind = "str"
     /\ loc.args.limit.n > 0)
        => /\ loc.request.from = 0
           /\ loc.request.size = loc.args.limit.n
           /\ calculate_page_parameters(loc.args) =
                  [from_param |-> 0, size_param |-> loc.args.limit.n]

(* the invocation is past get_token                                       *)
PastGetToken == integration = "sailpoint" /\ pc \notin {"idle", "get_token"}

(* the credential store as get_token found it held a token not yet        *)
(* expired at the time get_token read the clock (line 84)                 *)
HeldFreshToken ==
    /\ hist.contextAtStart.token # ""
    /\ ~IsNone(hist.contextAtStart.expires)
    /\ ~IsNone(hist.checkedAt)
    /\ hist.checkedAt[1] < hist.contextAtStart.expires[1]

(* C7: a stored token whose expiry is still ahead is returned as it is,   *)
(* with no token-exchange request and no write to the credential store.   *)
C7_CachedTokenReused ==
    (PastGetToken /\ HeldFreshToken) =>
        /\ pc # "generate_token"
        /\ loc.token = hist.contextAtStart.token
        /\ stats.tokenRequests = 0
        /\ stats.contextWrites = 0
        /\ stats.cachedTokens = 1
        /\ integration_context = hist.contextAtStart

C7_Witness ==
    /\ pc = "dispatch"
    /\ HeldFreshToken
    /\ stats.cachedTokens = 1
    /\ now = hist.refreshedAt[1] + TickSeconds

(* C8: with no token stored, or at or after the stored expiry, get_token  *)
(* makes exactly one exchange request and one write, stores the new token *)
(* with expires = now + expires_in - 60, now being the clock as read at   *)
(* the refresh, after the vendor's reply, and returns it; the stored      *)
(* expiry is always that of the latest refresh, and no token is taken     *)
(* from the cache at or after its stored expiry.                          *)
C8_RefreshStoresExpiry ==
    /\ (PastGetToken /\ ~HeldFreshToken) =>
          /\ stats.cachedTokens = 0
          /\ pc = "generate_token" =>
                /\ stats.tokenRequests = 0
                /\ stats.contextWrites = 0
                /\ integration_context = hist.contextAtStart
          /\ pc # "generate_token" =>
                /\ stats.tokenRequests = 1
                /\ stats.contextWrites = 1
                /\ ~IsNone(hist.refreshedAt)
                /\ hist.checkedAt[1] <= hist.refreshedAt[1]
                /\ hist.refreshedAt[1] <= now
                /\ integration_context =
                       [token |-> loc.token,
                        expires |-> Some(hist.refreshedAt[1]
                                         + hist.refreshedFor[1] - 60)]
    /\ integration = "sailpoint" =>
          /\ IsNone(hist.refreshedAt) => integration_context = EmptyContext
          /\ ~IsNone(hist.refreshedAt) =>
                integration_context.expires =
                    Some(hist.refreshedAt[1] + hist.refreshedFor[1] - 60)
          /\ ~IsNone(hist.cachedAt) =>
                /\ integration_context.token # ""
                /\ hist.cachedAt[1] < integration_context.expires[1]

C8_Witness ==
    /\ pc = "dispatch"
    /\ stats.tokenRequests = 1
    /\ hist.contextAtStart.token # ""
    /\ ~IsNone(hist.contextAtStart.expires)
    /\ now = hist.contextAtStart.expires[1]
    /\ integration_context.expires = Some(now + LookbackSeconds - 60)

(* the request fetch_events would make from the cursor the run started at *)
StartRequest ==
    FetchRequest([loc EXCEPT !.last_run = hist.startCursor,
                             !.max_events_per_fetch = hist.startBudget])

LastOf(events) == events[Len(events)]
CursorOf(event) == Cursor(event.id, event.created[1])

(* every cursor value of the run after the input value is taken from the  *)
(* last record of a non-empty response                                    *)
CursorFromLastRecord ==
    /\ InFetchLoop =>
          IF hist.responses = 0
          THEN loc.last_run = hist.startCursor /\ ~loc.last_fetched.bound
          ELSE /\ hist.lastResponse # <<>>
               /\ LastOf(hist.lastResponse) \in Range(index)
               /\ loc.last_run = CursorOf(LastOf(hist.lastResponse))
               /\ LastOf(loc.all_events) = LastOf(hist.lastResponse)
    /\ AfterFetch =>
          /\ loc.all_events # <<>>
          /\ loc.next_run = CursorOf(LastOf(loc.all_events))

(* the accumulated events are the first records matching the run's first  *)
(* request, with consecutive ids after the starting cursor                *)
GapFreeRun ==
    (InFetchLoop \/ AfterFetch) =>
        LET m == Matching(StartRequest, now)
            ids == Ids(loc.all_events)
            n == Len(ids)
        IN  /\ n <= Len(m)
            /\ ids = Ids(SubSeq(m, 1, n))
            /\ \A i \in 1..n : ids[i] > StartRequest.prev_id
            /\ \A i \in 1..(n - 1) : ids[i + 1] = ids[i] + 1

(* C2, as stated: in a run of fetch_events the cursor only takes values   *)
(* from the last record of a non-empty response, and for a vendor         *)
(* answering with any non-empty prefix of the matching records the        *)
(* accumulated events are a gap-free, duplicate-free ascending run of the *)
(* records that follow the starting cursor.                               *)
C2_NoRecordSkipped == CursorFromLastRecord /\ GapFreeRun

(* C2, amended: the same, the gap-free part for a stream whose creation   *)
(* times do not decrease in id order.                                     *)
C2_NoRecordSkippedTimeOrdered ==
    CursorFromLastRecord /\ (TimeOrdered => GapFreeRun)

C2_Witness ==
    /\ InFetchLoop
    /\ TimeOrdered
    /\ Len(index) = NumRecords
    /\ index[1].created # index[NumRecords].created
    /\ hist.responses >= 2
    /\ Len(loc.all_events) >= 2
    /\ Len(hist.lastResponse) < loc.request.limit

(* the scenario of two scheduled fetches with budget B over 2B records:   *)
(* a first fetch from the empty cursor has persisted its cursor           *)
TwoRunStream ==
    /\ integration = "sailpoint"
    /\ Len(index) = 2 * MaxEventsParam
    /\ command = "fetch-events"
    /\ ~IsNone(hist.completed)
    /\ hist.completed[1].start = EmptyRun

SecondRun == TwoRunStream /\ hist.startCursor.set

TwoBatches ==
    LET B == MaxEventsParam
        first == hist.completed[1]
        second == Ids(loc.all_events)
    IN  /\ first.batch = [i \in 1..B |-> i]
        /\ first.next = CursorOf(index[B])
        /\ hist.startCursor.set =>
              /\ hist.startCursor = first.next
              /\ ~hist.firstEmpty
              /\ pc = "set_last_run" =>
                    /\ second = [i \in 1..B |-> B + i]
                    /\ Range(first.batch) \cap Range(second) = {}
                    /\ first.batch \o second = Ids(index)
                    /\ Range(first.batch) \cup Range(second) \subseteq Delivered

(* C1, as stated: two scheduled fetches with budget B over a stream of 2B *)
(* records give two disjoint batches whose concatenation is the stream in *)
(* id order, the second starting at the last record of the first batch.   *)
C1_TwoRunsCoverStream == TwoRunStream => TwoBatches

(* C1, amended: the same for a stream whose creation times do not         *)
(* decrease in id order and are not earlier than the lower time bound of  *)
(* the first fetch.                                                       *)
C1_TwoRunsCoverOrderedStream ==
    (/\ TwoRunStream
     /\ TimeOrdered
     /\ \A i \in 1..Len(index) :
            StampLeq(hist.completed[1].lookback, index[i].created[1]))
        => TwoBatches

C1_Witness ==
    /\ SecondRun
    /\ TimeOrdered
    /\ StampLeq(hist.completed[1].lookback, index[1].created[1])
    /\ pc = "set_last_run"
    /\ Ids(loc.all_events) = [i \in 1..MaxEventsParam |-> MaxEventsParam + i]

(* the write of the cursor comes once, last, after the sink took the      *)
(* normalised events; a failed or aborted invocation leaves the cursor    *)
CursorWrittenLast ==
    integration = "sailpoint" =>
        /\ stats.cursorWrites <= 1
        /\ stats.cursorWrites = 0 => lastRun = hist.lastRunAtStart
        /\ hist.outcome \in {"error", "aborted"} =>
              stats.cursorWrites = 0 /\ lastRun = hist.lastRunAtStart
        /\ pc = "set_last_run" =>
              /\ stats.sinkCalls = 1
              /\ Len(loc.events) = Len(loc.all_events)
              /\ \A i \in 1..Len(loc.events) :
                    /\ loc.events[i].id = loc.all_events[i].id
                    /\ loc.events[i]["_ENTRY_STATUS"] \in {"new", "modified"}
                    /\ loc.events[i]["_time"] = Some(loc.all_events[i].created[1].sec)
                    /\ loc.events[i] \in sink
        /\ stats.cursorWrites = 1 =>
              /\ command = "fetch-events"
              /\ pc = "idle"
              /\ hist.outcome = "ok"
              /\ stats.sinkCalls = 1
              /\ Range(hist.completed[1].batch) \subseteq Delivered

(* C4, as stated: the cursor is written at most once per invocation, only *)
(* after normalisation and the sink call, a failed or aborted invocation  *)
(* leaves it as it was, and every record at or below the persisted cursor *)
(* has been delivered to the sink.                                        *)
C4_CursorImpliesDelivered ==
    /\ CursorWrittenLast
    /\ lastRun.set =>
          \A i \in 1..Len(index) :
              index[i].id <= lastRun.prev_id => index[i].id \in Delivered

(* C4, amended: the same, the last part for the records of the batches    *)
(* whose cursor was persisted.                                            *)
C4_PersistedBatchesDelivered ==
    /\ CursorWrittenLast
    /\ hist.persisted \subseteq Delivered

C4_Witness ==
    /\ stats.cursorWrites = 1
    /\ hist.lastRunAtStart.set
    /\ Cardinality(hist.persisted) >= 2
    /\ hist.persisted \subseteq Delivered

(* an argument the caller supplied: present with a value                  *)
Supplied(v) == v.kind = "str"

(* the search command is past the validation of its arguments             *)
PastQueryStart ==
    /\ integration = "exabeam"
    /\ command = "exabeam-data-lake-search"
    /\ \/ pc = "exa_search"
       \/ pc = "idle" /\ hist.outcome \in {"ok", "error"} /\ hist.error # "login"

(* C11: with page >= 1 and page_size >= 1 supplied together and no limit, *)
(* the window is from = page*page_size - page_size, size = page_size, and *)
(* the window of the next page starts where this one ends.                *)
C11_PageWindow ==
    (/\ integration = "exabeam"
     /\ pc = "exa_search"
     /\ Supplied(loc.args.page) /\ loc.args.page.n >= 1
     /\ Supplied(loc.args.page_size) /\ loc.args.page_size.n >= 1
     /\ ~Supplied(loc.args.limit))
        => LET p == loc.args.page.n
               sz == loc.args.page_size.n
               next == calculate_page_parameters(
                           [loc.args EXCEPT !.page = StrArg(p + 1)])
           IN  /\ loc.request.from = p * sz - sz
               /\ loc.request.size = sz
               /\ p = 1 => loc.request.from = 0
               /\ next.from_param = loc.request.from + loc.request.size
               /\ next.size_param = sz

C11_Witness ==
    /\ integration = "exabeam"
    /\ pc = "exa_search"
    /\ loc.args.page = StrArg(2)
    /\ loc.args.page_size = StrArg(2)
    /\ loc.args.limit = AbsentArg
    /\ loc.request.from = 2

(* the combinations the claim names: limit with page or page_size, or     *)
(* exactly one of page and page_size                                      *)
ConflictingPageArgs(a) ==
    \/ Supplied(a.limit) /\ Supplied(a.page)
    \/ Supplied(a.limit) /\ Supplied(a.page_size)
    \/ Supplied(a.page) # Supplied(a.page_size)

(* C12: calculate_page_parameters raises its validation error, and gives  *)
(* no page window, for exactly the combinations with limit together with  *)
(* page or page_size and those with exactly one of page and page_size.    *)
C12_PageArgsValidation ==
    PastQueryStart =>
        /\ ConflictingPageArgs(loc.args) <=>
              hist.error = "You can only provide 'limit' alone or 'page' and 'page_size' together."
        /\ ConflictingPageArgs(loc.args) =>
              /\ pc = "idle"
              /\ hist.outcome = "error"
              /\ stats.searchRequests = 0
              /\ loc.request = ExaNoRequest

C12_Witness ==
    /\ PastQueryStart
    /\ hist.error = "You can only provide 'limit' alone or 'page' and 'page_size' together."
    /\ loc.args.page = StrArg(1)
    /\ loc.args.page_size = NoneArg
    /\ loc.args.limit = AbsentArg

(* the search command validated its page arguments and has both times    *)
DatesChecked ==
    /\ PastQueryStart
    /\ ~ConflictingPageArgs(loc.args)
    /\ ~IsNone(loc.args.start_time)
    /\ ~IsNone(loc.args.end_time)

StartDay == get_date(loc.args.start_time[1])
EndDay == get_date(loc.args.end_time[1])

(* C13, as stated: dates_in_range rejects every pair with start >= end    *)
(* and every pair whose inclusive number of days exceeds 10, so that a    *)
(* successful call returns at most 10 index names.                        *)
C13_InclusiveSpanRejected ==
    DatesChecked =>
        /\ StartDay >= EndDay => hist.error = "Start time must be before end time"
        /\ (StartDay < EndDay /\ EndDay - StartDay + 1 > 10) =>
              hist.error = "Difference between start time and end time must be less than or equal to 10 days"
        /\ pc = "exa_search" => Len(loc.request.indices) <= 10

(* C13, amended: dates_in_range rejects every pair with start >= end and  *)
(* every pair whose end is more than 10 days after its start, and no      *)
(* other pair; a successful call returns at most 11 index names.          *)
C13_DifferenceSpanRejected ==
    DatesChecked =>
        /\ StartDay >= EndDay <=> hist.error = "Start time must be before end time"
        /\ (StartDay < EndDay /\ EndDay - StartDay > 10) <=>
              hist.error = "Difference between start time and end time must be less than or equal to 10 days"
        /\ (StartDay >= EndDay \/ EndDay - StartDay > 10) =>
              /\ pc = "idle"
              /\ hist.outcome = "error"
              /\ stats.searchRequests = 0
        /\ pc = "exa_search" => Len(loc.request.indices) <= 11

C13_Witness ==
    /\ DatesChecked
    /\ EndDay - StartDay = 11
    /\ hist.error = "Difference between start time and end time must be less than or equal to 10 days"

(* C14: for an accepted pair dates_in_range returns one entry per         *)
(* calendar day from start to end inclusive, ascending day by day, the    *)
(* first being the start day and the last the end day.                    *)
C14_OneEntryPerDay ==
    (DatesChecked /\ StartDay < EndDay /\ EndDay - StartDay <= 10) =>
        /\ stats.searchRequests = 1
        /\ pc = "exa_search" =>
              LET dates == loc.request.indices
              IN  /\ Len(dates) = EndDay - StartDay + 1
                  /\ dates[1] = StartDay
                  /\ dates[Len(dates)] = EndDay
                  /\ \A i \in 1..(Len(dates) - 1) : dates[i + 1] = dates[i] + 1

C14_Witness ==
    /\ DatesChecked
    /\ pc = "exa_search"
    /\ StartDay = 0
    /\ EndDay = 9
    /\ Len(loc.request.indices) = 10

(* the search command ended in one of the validation errors               *)
ValidationErrors ==
    {"You can only provide 'limit' alone or 'page' and 'page_size' together.",
     "Start time must be before end time",
     "Difference between start time and end time must be less than or equal to 10 days"}

ValidationFailed == PastQueryStart /\ hist.error \in ValidationErrors

(* C15, as stated: when the arguments of the search command are invalid,  *)
(* the validation error comes before any network call: no login request  *)
(* and no search request precedes it.                                     *)
C15_ValidationBeforeAnyRequest ==
    ValidationFailed =>
        /\ stats.loginRequests = 0
        /\ stats.searchRequests = 0

(* C15, amended: the validation error comes before any search request;    *)
(* the login request of the client's construction has been made by then.  *)
C15_ValidationBeforeSearch ==
    /\ ValidationFailed =>
          /\ stats.loginRequests = 1
          /\ stats.searchRequests = 0
          /\ pc = "idle"
          /\ results = <<"error">>
    /\ (PastQueryStart /\ stats.searchRequests > 0) =>
          /\ ~ConflictingPageArgs(loc.args)
          /\ ~IsNone(loc.args.start_time)
          /\ ~IsNone(loc.args.end_time)
          /\ StartDay < EndDay
          /\ EndDay - StartDay <= 10

C15_Witness ==
    /\ ValidationFailed
    /\ hist.error = "Start time must be before end time"
    /\ stats.loginRequests = 1
    /\ StartDay > EndDay

(* the vendor's first response object carried a non-empty error object    *)
ErrorReply ==
    /\ integration = "exabeam"
    /\ ~IsNone(hist.reply)
    /\ hist.reply[1].kind \in {"error", "unknown", "no_root_cause"}

(* C16: an error object in the vendor's first response object makes the   *)
(* search command raise, with the reason of the first root cause in the   *)
(* message, return no records and send no further search request.         *)
C16_UpstreamErrorRaised ==
    ErrorReply =>
        /\ pc = "idle"
        /\ hist.outcome = "error"
        /\ results = <<"error">>
        /\ loc.outputs = <<>>
        /\ stats.searchRequests = 1
        /\ hist.reply[1].kind = "error" =>
              hist.error = "Error in query: " \o hist.reply[1].reason

C16_Witness ==
    /\ ErrorReply
    /\ hist.reply[1].reason = "test response"
    /\ hist.error = "Error in query: test response"

(* ------------------------------ C17, C18 ------------------------------ *)
(* The list has been through add_time_and_status_to_events at least once  *)
(* and is still held by the invocation.                                   *)
Normalized == pc = "send" /\ stats.normalizations >= 1

(* The record as received has both timestamps and modified is strictly    *)
(* the later.                                                             *)
StrictlyLater(raw) ==
    /\ "created" \in DOMAIN raw /\ ~IsNone(raw.created)
    /\ "modified" \in DOMAIN raw /\ ~IsNone(raw.modified)
    /\ \/ raw.created[1].sec < raw.modified[1].sec
       \/ /\ raw.created[1].sec = raw.modified[1].sec
          /\ raw.created[1].micro < raw.modified[1].micro

HasCreated(raw) == "created" \in DOMAIN raw /\ ~IsNone(raw.created)

(* C17: after the normaliser has run, the status of a record is           *)
(* "modified" exactly when the record as received carries both created    *)
(* and modified and modified is strictly later, and "new" otherwise; its  *)
(* ingestion time is the formatted modified time when the status is       *)
(* "modified", else the formatted created time when created is present,   *)
(* else unset.                                                            *)
C17_StatusAndTime ==
    Normalized =>
        /\ Len(loc.events) = Len(hist.lastResponse)
        /\ \A i \in 1..Len(loc.events) :
               LET raw == hist.lastResponse[i]
                   event == loc.events[i]
               IN  /\ event["_ENTRY_STATUS"] =
                          IF StrictlyLater(raw) THEN "modified" ELSE "new"
                   /\ event["_time"] =
                          IF StrictlyLater(raw) THEN Some(raw.modified[1].sec)
                          ELSE IF HasCreated(raw) THEN Some(raw.created[1].sec)
                               ELSE None

(* A normalised list holding a modified record, a record whose two        *)
(* timestamps are equal, and hence new, and one with no creation time.    *)
C17_Witness ==
    /\ Normalized
    /\ \E i \in 1..Len(loc.events) :
           /\ loc.events[i]["_ENTRY_STATUS"] = "modified"
           /\ loc.events[i]["_time"] = Some(hist.lastResponse[i].modified[1].sec)
    /\ \E i \in 1..Len(loc.events) :
           /\ loc.events[i]["_ENTRY_STATUS"] = "new"
           /\ \/ loc.events[i]["_time"] = None
              \/ /\ HasCreated(hist.lastResponse[i])
                 /\ hist.lastResponse[i].modified = hist.lastResponse[i].created

InjectedKeys == {"_ENTRY_STATUS", "_time"}

(* C18: normalising a list that has been normalised leaves it equal to    *)
(* the list normalised once, and however often the normaliser has run,    *)
(* every record keeps each field it arrived with (id, created, modified   *)
(* among them) and gains the two injected fields only.                    *)
C18_IdempotentAndFramed ==
    Normalized =>
        /\ loc.events = add_time_and_status_to_events(hist.lastResponse)
        /\ Len(loc.events) = Len(hist.lastResponse)
        /\ \A i \in 1..Len(loc.events) :
               LET raw == hist.lastResponse[i]
                   event == loc.events[i]
               IN  /\ DOMAIN event = DOMAIN raw \cup InjectedKeys
                   /\ \A key \in DOMAIN raw \ InjectedKeys :
                          event[key] = raw[key]

(* The normaliser has run twice on a list of two records, one of them     *)
(* modified.                                                              *)
C18_Witness ==
    /\ pc = "send"
    /\ stats.normalizations = 2
    /\ Len(loc.events) = 2
    /\ \E i \in 1..2 : loc.events[i]["_ENTRY_STATUS"] = "modified"

(* -------------------------------- C19 --------------------------------- *)
(* The connection test has ended after the search endpoint answered.      *)
ProbeAnswered ==
    /\ command = "test-module"
    /\ pc = "idle"
    /\ hist.responses >= 1
    /\ hist.outcome # "aborted"
    /\ hist.error \notin {"Forbidden", "Transport"}

(* C19: the connection test returns ok whenever the credential was        *)
(* obtained and the search endpoint answered, whatever the number of      *)
(* events in the answer, zero included.  The code raises                  *)
(* UnboundLocalError on an empty answer and the test ends in return_error.*)
C19_ProbeOkOnAnyAnswer ==
    ProbeAnswered => results = <<"ok">> /\ hist.outcome = "ok"

(* -------------------------------- C20 --------------------------------- *)
(* The invocation ended with an exception reaching the handler of main.   *)
Failed == pc = "idle" /\ hist.outcome = "error"

FailureEntries == {i \in 1..Len(results) : results[i] = "error"}

(* C20 as stated: an exception escaping a command gives exactly one       *)
(* failure result, nothing else is returned with it, and no cursor is     *)
(* persisted.  identitynow-get-events returns its output before it        *)
(* normalises and sends the events, so a failure of either follows the    *)
(* output.                                                                *)
C20_FailureResultAlone ==
    Failed =>
        /\ results = <<"error">>
        /\ stats.cursorWrites = 0

(* C20, amended: an exception escaping a command gives exactly one        *)
(* failure result, the last entry of the invocation, carrying the error;  *)
(* nothing else is returned with it, except that identitynow-get-events   *)
(* failing while it normalises or sends the events has already returned   *)
(* its output; no cursor is persisted.                                    *)
C20_FailureResultLast ==
    Failed =>
        /\ hist.error # "none"
        /\ Len(results) >= 1
        /\ results[Len(results)] = "error"
        /\ Cardinality(FailureEntries) = 1
        /\ \/ results = <<"error">>
           \/ /\ command = "identitynow-get-events"
              /\ results = <<"events", "error">>
              /\ stats.searchRequests >= 1
              /\ hist.error \in {"ValueError", "sink"}
        /\ command = "fetch-events" => results = <<"error">>
        /\ stats.cursorWrites = 0
        /\ lastRun = hist.lastRunAtStart

(* identitynow-get-events returned the events and then failed to send     *)
(* them.                                                                  *)
C20_Witness ==
    /\ Failed
    /\ command = "identitynow-get-events"
    /\ hist.error = "sink"
    /\ stats.sinkCalls = 1
    /\ results = <<"events", "error">>

(* -------------------------------- C21 --------------------------------- *)
(* The search command has ended after the vendor answered its request.    *)
SearchAnswered ==
    /\ integration = "exabeam"
    /\ command = "exabeam-data-lake-search"
    /\ pc = "idle"
    /\ ~IsNone(hist.reply)

(* The answer has a first response object, or no "responses" key at all,  *)
(* and no error object.                                                   *)
AnswerWithoutError ==
    SearchAnswered /\ hist.reply[1].kind \in {"none", "empty", "hits"}

(* C21: the DataLake search sends one search request per invocation, with *)
(* from and size of the computed page window, and returns the hits of the *)
(* first response object as received, in their order; an answer without   *)
(* hits gives an empty record list and the "No entries" table, not an     *)
(* error.                                                                 *)
C21_SingleShotSearch ==
    integration = "exabeam" =>
        /\ stats.searchRequests <= 1
        /\ pc = "exa_search" =>
              /\ stats.searchRequests = 1
              /\ loc.request.from = calculate_page_parameters(loc.args).from_param
              /\ loc.request.size = calculate_page_parameters(loc.args).size_param
        /\ SearchAnswered => stats.searchRequests = 1
        /\ AnswerWithoutError =>
              /\ hist.outcome = "ok"
              /\ loc.outputs = hist.reply[1].hits
              /\ results = <<IF hist.reply[1].hits = <<>>
                             THEN "No entries" ELSE "Logs">>

(* An answer of two hits in descending order of id, followed by a second  *)
(* response object, has been returned.                                    *)
C21_Witness ==
    /\ AnswerWithoutError
    /\ hist.reply[1].others = 1
    /\ Len(hist.reply[1].hits) = 2
    /\ hist.reply[1].hits[1] > hist.reply[1].hits[2]
    /\ loc.outputs = hist.reply[1].hits
    /\ results = <<"Logs">>

(* -------------------------------- C22 --------------------------------- *)
(* A request of the loop of fetch_events is with the vendor.              *)
RequestInFlight == integration = "sailpoint" /\ pc = "search"

(* C22: the request of the first iteration of fetch_events asks after the *)
(* id and from the time of the input cursor, or after id 0 and from one   *)
(* hour before now, the clock as read when the invocation loaded the      *)
(* module, when the input cursor is empty; the request of every           *)
(* later iteration asks after the id and from the creation time of the    *)
(* last record of the response just before it, which lies after the input *)
(* cursor; and the limit of every request is the budget that remains.     *)
C22_RequestFollowsCursor ==
    RequestInFlight =>
        /\ stats.searchRequests = hist.responses + 1
        /\ loc.request.limit = hist.startBudget - Len(loc.all_events)
        /\ IF hist.responses = 0
           THEN IF hist.startCursor.set
                THEN /\ loc.request.prev_id = hist.startCursor.prev_id
                     /\ loc.request.from_date = hist.startCursor.prev_date
                ELSE /\ loc.request.prev_id = 0
                     /\ loc.request.from_date =
                            Stamp(hist.startedAt[1] - LookbackSeconds, 0)
           ELSE /\ hist.lastResponse # <<>>
                /\ loc.request.prev_id = LastOf(hist.lastResponse).id
                /\ loc.request.from_date = LastOf(hist.lastResponse).created[1]
                /\ loc.request.prev_id > hist.startCursor.prev_id

(* The third request of a scheduled fetch.                                *)
C22_Witness ==
    /\ RequestInFlight
    /\ command = "fetch-events"
    /\ hist.responses = 2
    /\ stats.searchRequests = 3
    /\ loc.request.prev_id = LastOf(hist.lastResponse).id
    /\ loc.request.limit = hist.startBudget - 2

(* -------------------------------- C23 --------------------------------- *)
(* A step of a running identitynow-get-events invocation.                 *)
GetEventsRunning == command = "identitynow-get-events" /\ pc # "idle"

(* The request the caller's arguments ask for: after id 0, from the       *)
(* caller's from_date in whole seconds or from one hour before the clock  *)
(* reading of the module load, with the caller's limit or 50.             *)
CallerRequest ==
    [prev_id |-> 0,
     from_date |-> IF IsNone(loc.args.from_date)
                   THEN Stamp(hist.startedAt[1] - LookbackSeconds, 0)
                   ELSE Stamp(loc.args.from_date[1].sec, 0),
     limit |-> IF IsNone(loc.args.limit) \/ loc.args.limit[1] = 0
               THEN 50 ELSE loc.args.limit[1]]

SinkStep == sink' # sink \/ stats'.sinkCalls # stats.sinkCalls

GetEventsStep ==
    GetEventsRunning =>
        /\ lastRun' = lastRun
        /\ stats'.cursorReads = 0
        /\ stats'.cursorWrites = 0
        /\ stats'.searchRequests <= 1
        /\ stats'.searchRequests # stats.searchRequests =>
               loc'.request = CallerRequest
        /\ hist'.outcome = "ok" => stats'.searchRequests = 1
        /\ SinkStep =>
               /\ loc.args.should_push_events = Some(TRUE)
               /\ stats.sinkCalls = 0
               /\ stats.normalizations = 1
               /\ results = <<"events">>
               /\ sink' \ sink \subseteq
                      Range(add_time_and_status_to_events(hist.lastResponse))
               /\ \A event \in sink' \ sink :
                      {"_ENTRY_STATUS", "_time"} \subseteq DOMAIN event

(* C23: identitynow-get-events neither reads nor writes the persisted     *)
(* cursor and sends one search request, after id 0, from the caller's     *)
(* from_date or the default lookback, with the caller's limit or 50; it   *)
(* hands events to the sink only when should_push_events is true, once,   *)
(* after they were normalised and after the result was returned.          *)
C23_InteractiveGetEvents == [][GetEventsStep]_vars

(* identitynow-get-events has returned its result and then sent the       *)
(* normalised events of its one request to the sink.                      *)
C23_Witness ==
    /\ command = "identitynow-get-events"
    /\ pc = "idle"
    /\ hist.outcome = "ok"
    /\ results = <<"events">>
    /\ stats.searchRequests = 1
    /\ stats.normalizations = 1
    /\ stats.sinkCalls = 1
    /\ sink # {}
    /\ lastRun = hist.lastRunAtStart
====
